---- MODULE Spec2Model ----
(***************************************************************************)
(* A model of the LOGOS news aggregator (vajraniti/sahrass).               *)
(*                                                                         *)
(*   Spec           the Aggregator (logic.rs fetch_target) driving the     *)
(*                  retry wrapper fetch_with_retry, and the retry wrapper  *)
(*                  called directly with any attempt budget.               *)
(*                                                                         *)
(* fetch_with_retry is called by logic.rs:63 but its body is not part of   *)
(* the sources at hand; it is modelled from section 4.6 of the             *)
(* specification.  The same holds for the error kinds RateLimited,         *)
(* Forbidden and NotFound, which network.rs:14-20 does not declare.        *)
(***************************************************************************)
EXTENDS Integers, Sequences, FiniteSets, TLC

VARIABLES
    \* ---- Aggregator (logic.rs fetch_target) ----
    target,         \* the Target handed to fetch_target
    apc,            \* position of fetch_target: start / loop / await / done / direct
    sources,        \* target.resolve()
    idx,            \* 1-based position of the for loop in sources
    header,
    content,        \* the String under construction, as a sequence of pieces
    success_count,
    error_count,
    calls,          \* history: fetch_with_retry call/return events, in order
    \* ---- retry wrapper (fetch_with_retry) ----
    rpc,            \* idle / top / fetch / returned
    rsource,        \* the source being fetched
    maxAttempts,
    attempt,        \* loop index 0..maxAttempts
    lastError,
    outcomes,       \* history: what fetch returned at each attempt of this call
    sleeps,         \* history: the delays slept during this call
    result,         \* the value returned
    \* ---- one fetch (network.rs NewsEngine::fetch) ----
    fsource,        \* the source handed to fetch
    flang,          \* its language (specification, section 3)
    resp,           \* what the network answers to the request of the parser
    fpc,            \* off / start / delayed / done
    fdelays,        \* history: pre-request delays slept
    translations,   \* history: translation sub-tasks started, by item position
    fresult,        \* the value fetch returns
    \* ---- one translation (translate.rs translate_text) ----
    ttext,          \* text
    tlang,          \* target_lang
    tresp,          \* what the translation endpoint answers
    tpc,            \* off / send / status / json / done
    tresult,        \* the value translate_text returns
    \* ---- one call of a delay function (utils.rs) ----
    dpc,            \* off / golden / progressive / done
    dbase,          \* base_ms
    dattempt,       \* attempt (u32)
    ddelay,         \* the milliseconds slept
    \* ---- one call of a text function (utils.rs truncate_text, main.rs split_message) ----
    xpc,            \* off / truncate / split / done
    xtext,          \* text, as a sequence of characters
    xmax,           \* max_len
    xout,           \* the String truncate_text returns, as bytes
    xstart,         \* split_message: start
    xchunks,        \* split_message: chunks, each a byte range <<from, to>> of text
    \* ---- one bot command (main.rs handle_command) ----
    cmd,            \* the Command received
    hpc,            \* off / received / fetching / done
    replies         \* history: what the bot sent to the chat

aggVars   == <<target, apc, sources, idx, header, content, success_count, error_count, calls>>
retryVars == <<rpc, rsource, maxAttempts, attempt, lastError, outcomes, sleeps, result>>
fetchVars == <<fsource, flang, resp, fpc, fdelays, translations, fresult>>
trVars    == <<ttext, tlang, tresp, tpc, tresult>>
delayVars == <<dpc, dbase, dattempt, ddelay>>
textVars  == <<xpc, xtext, xmax, xout, xstart, xchunks>>
cmdVars   == <<cmd, hpc, replies>>
utilVars  == <<delayVars, textVars>>
engineVars == <<fetchVars, trVars, utilVars>>
vars      == <<aggVars, retryVars, fetchVars, trVars, delayVars, textVars, cmdVars>>

\* ------------------------------------------------------------------ bounds

\* Largest attempt budget tried when fetch_with_retry is called directly.
MaxAttempts == 3

\* ------------------------------------------------------------ consts.rs

Category == {"Global", "War", "Market", "Commodities"}

SourceType == {"Rss", "TelegramHtml"}

Source(name, source_type, category) ==
    [name |-> name, source_type |-> source_type, category |-> category]

SOURCES == <<
    Source("Reuters",     "Rss",          "Global"),
    Source("Kommersant",  "TelegramHtml", "Global"),
    Source("AlJazeera",   "Rss",          "Global"),
    Source("DeepState",   "TelegramHtml", "War"),
    Source("TASS",        "TelegramHtml", "War"),
    Source("Liveuamap",   "TelegramHtml", "War"),
    Source("Bloomberg",   "TelegramHtml", "Market"),
    Source("MarketTwits", "TelegramHtml", "Market"),
    Source("TreeOfAlpha", "TelegramHtml", "Market"),
    Source("Gold",        "Rss",          "Commodities"),
    Source("Oil",         "Rss",          "Commodities") >>

\* str::to_ascii_lowercase on the names that occur as inputs.
AsciiLower ==
    [n \in {"Reuters", "Kommersant", "AlJazeera", "DeepState", "TASS", "Liveuamap",
            "Bloomberg", "MarketTwits", "TreeOfAlpha", "Gold", "Oil",
            "tass", "GOLD", "RBC", "Monitor"} |->
        CASE n = "Reuters"     -> "reuters"
          [] n = "Kommersant"  -> "kommersant"
          [] n = "AlJazeera"   -> "aljazeera"
          [] n = "DeepState"   -> "deepstate"
          [] n = "TASS"        -> "tass"
          [] n = "Liveuamap"   -> "liveuamap"
          [] n = "Bloomberg"   -> "bloomberg"
          [] n = "MarketTwits" -> "markettwits"
          [] n = "TreeOfAlpha" -> "treeofalpha"
          [] n = "Gold"        -> "gold"
          [] n = "Oil"         -> "oil"
          [] n = "tass"        -> "tass"
          [] n = "GOLD"        -> "gold"
          [] n = "RBC"         -> "rbc"
          [] n = "Monitor"     -> "monitor"]

eq_ignore_ascii_case(a, b) == AsciiLower[a] = AsciiLower[b]

\* SOURCES.iter().find(..): the first match, as a list of zero or one source.
find_source(name) ==
    LET hits == {i \in 1..Len(SOURCES) : eq_ignore_ascii_case(SOURCES[i].name, name)}
    IN  IF hits = {} THEN <<>>
        ELSE <<SOURCES[CHOOSE i \in hits : \A j \in hits : i <= j]>>

\* SOURCES.iter().filter(..): the matches in registry order.
sources_by_category(category) ==
    SelectSeq(SOURCES, LAMBDA s : s.category = category)

\* -------------------------------------------------------- logic.rs Target

TargetCategory(cat) == [kind |-> "Category", of |-> cat]
TargetSource(name)  == [kind |-> "Source", of |-> name]

Targets ==
    {TargetCategory(c) : c \in Category} \cup {TargetSource(n) : n \in DOMAIN AsciiLower}

resolve(t) ==
    IF t.kind = "Category" THEN sources_by_category(t.of) ELSE find_source(t.of)

display_name(t) ==
    IF t.kind = "Category" THEN <<"category", t.of>> ELSE <<"spider", t.of>>

\* ------------------------------------------------------ network.rs errors

\* The variants network.rs declares.
FetchError == {"Http", "NoKey", "Empty", "Parse"}

\* The variants only the specification names (section 3).
SpecFetchError == {"RateLimited", "Forbidden", "NotFound"}

ErrorKinds == FetchError \cup SpecFetchError

Ok(items) == [ok |-> TRUE, items |-> items, err |-> "-"]
Err(e)    == [ok |-> FALSE, items |-> <<>>, err |-> e]
NoResult  == [ok |-> FALSE, items |-> <<>>, err |-> "pending"]

\* format_results / format_error: the block opens with the source's name and
\* carries the items, respectively the error's Display text.
format_results(source_name, items) ==
    [fmt |-> "results", name |-> source_name, items |-> items, err |-> "-"]
format_error(source_name, e) ==
    [fmt |-> "error", name |-> source_name, items |-> <<>>, err |-> e]
Newline     == [fmt |-> "newline", name |-> "-", items |-> <<>>, err |-> "-"]
NoSourcesFound == [fmt |-> "no sources", name |-> "-", items |-> <<>>, err |-> "-"]

\* The attempt budget fetch_target passes to fetch_with_retry.
AggregatorAttempts == 2

\* ----------------------------------------------- fetch_with_retry (4.6)

\* Entry of fetch_with_retry(source, max): the last error holds no recorded
\* error yet; the specification does not say what it holds then, so any
\* error kind may be its initial value.
CallRetry(src, max) ==
    /\ rpc' = "top"
    /\ rsource' = src
    /\ maxAttempts' = max
    /\ attempt' = 0
    /\ lastError' \in ErrorKinds
    /\ outcomes' = <<>>
    /\ sleeps' = <<>>
    /\ result' = NoResult

\* "if all attempts fail, return the last recorded error"
RetryExhausted ==
    /\ rpc = "top"
    /\ attempt >= maxAttempts
    /\ result' = Err(lastError)
    /\ rpc' = "returned"
    /\ UNCHANGED <<rsource, maxAttempts, attempt, lastError, outcomes, sleeps>>
    /\ UNCHANGED <<aggVars, engineVars, cmdVars>>

\* "before each retry (attempt > 0) apply Stealth Timing retry delay"
RetryBegin ==
    /\ rpc = "top"
    /\ attempt < maxAttempts
    /\ sleeps' = IF attempt > 0 THEN Append(sleeps, <<"retry", attempt>>) ELSE sleeps
    /\ rpc' = "fetch"
    /\ UNCHANGED <<rsource, maxAttempts, attempt, lastError, outcomes, result>>
    /\ UNCHANGED <<aggVars, engineVars, cmdVars>>

\* A retry loop that notes the success but goes on to the next attempt.
AttemptSucceedsAndContinues ==
    /\ rpc = "fetch"
    /\ outcomes' = Append(outcomes, "Ok")
    /\ result' = Ok(<<attempt>>)
    /\ attempt' = attempt + 1
    /\ rpc' = IF attempt + 1 >= maxAttempts THEN "returned" ELSE "top"
    /\ UNCHANGED <<rsource, maxAttempts, lastError, sleeps>>
    /\ UNCHANGED <<aggVars, engineVars, cmdVars>>

\* "return the first success immediately".  The items of a success carry the
\* index of the attempt that produced them.
AttemptSucceeds ==
    /\ rpc = "fetch"
    /\ outcomes' = Append(outcomes, "Ok")
    /\ result' = Ok(<<attempt>>)
    /\ rpc' = "returned"
    /\ UNCHANGED <<rsource, maxAttempts, attempt, lastError, sleeps>>
    /\ UNCHANGED <<aggVars, engineVars, cmdVars>>

\* "on RateLimited apply the extended backoff variant and continue"
AttemptRateLimited ==
    /\ rpc = "fetch"
    /\ outcomes' = Append(outcomes, "RateLimited")
    /\ sleeps' = Append(sleeps, <<"extended", attempt + 1>>)
    /\ attempt' = attempt + 1
    /\ rpc' = "top"
    /\ UNCHANGED <<rsource, maxAttempts, lastError, result>>
    /\ UNCHANGED <<aggVars, engineVars, cmdVars>>

\* A retry loop that forgets to record the error.
AttemptFailsUnrecorded ==
    /\ rpc = "fetch"
    /\ \E e \in ErrorKinds \ {"RateLimited"} : outcomes' = Append(outcomes, e)
    /\ attempt' = attempt + 1
    /\ rpc' = "top"
    /\ UNCHANGED <<rsource, maxAttempts, lastError, sleeps, result>>
    /\ UNCHANGED <<aggVars, engineVars, cmdVars>>

\* "on any other error, record it as the last error and continue"
AttemptFails ==
    /\ rpc = "fetch"
    /\ \E e \in ErrorKinds \ {"RateLimited"} :
        /\ outcomes' = Append(outcomes, e)
        /\ lastError' = e
    /\ attempt' = attempt + 1
    /\ rpc' = "top"
    /\ UNCHANGED <<rsource, maxAttempts, sleeps, result>>
    /\ UNCHANGED <<aggVars, engineVars, cmdVars>>

fetch_with_retry ==
    \/ RetryExhausted
    \/ RetryBegin
    \/ AttemptSucceeds
    \/ AttemptRateLimited
    \/ AttemptFails

\* ------------------------------------------------- logic.rs fetch_target

\* A fetch_target without the early return on an empty source list.
AggStartNoEarlyReturn ==
    /\ apc = "start"
    /\ sources' = resolve(target)
    /\ header' = <<display_name(target), "Feed">>
    /\ content' = <<>>
    /\ success_count' = 0
    /\ error_count' = 0
    /\ apc' = "loop"
    /\ idx' = 1
    /\ UNCHANGED <<target, calls>>
    /\ UNCHANGED <<retryVars, engineVars, cmdVars>>

\* logic.rs:46-60: resolve, build the header, return at once on no sources.
AggStart ==
    /\ apc = "start"
    /\ sources' = resolve(target)
    /\ header' = <<display_name(target), "Feed">>
    /\ IF resolve(target) = <<>>
       THEN /\ content' = <<NoSourcesFound>>
            /\ success_count' = 0
            /\ error_count' = 1
            /\ apc' = "done"
       ELSE /\ content' = <<>>
            /\ success_count' = 0
            /\ error_count' = 0
            /\ apc' = "loop"
    /\ idx' = 1
    /\ UNCHANGED <<target, calls>>
    /\ UNCHANGED <<retryVars, engineVars, cmdVars>>

\* A loop that walks the resolved list backwards.
loop_source_reversed(srcs, i) == srcs[Len(srcs) + 1 - i]

\* The source the for loop visits at position i.
loop_source(srcs, i) == srcs[i]

\* logic.rs:62-63: the loop calls engine.fetch_with_retry(source, 2).
AggCall ==
    /\ apc = "loop"
    /\ idx <= Len(sources)
    /\ rpc = "idle"
    /\ CallRetry(loop_source(sources, idx), AggregatorAttempts)
    /\ calls' = Append(calls, [ev |-> "call", name |-> loop_source(sources, idx).name, ok |-> FALSE])
    /\ apc' = "await"
    /\ UNCHANGED <<target, sources, idx, header, content, success_count, error_count>>
    /\ UNCHANGED <<engineVars, cmdVars>>

\* logic.rs:64-68
on_ok(c, source_name, items) == c \o <<format_results(source_name, items), Newline>>
\* logic.rs:69-73
on_err(c, source_name, e) == Append(c, format_error(source_name, e))

\* A loop that gives up on the first source that fails.
AggReturnAbortsOnError ==
    /\ apc = "await"
    /\ rpc = "returned"
    /\ IF result.ok
       THEN /\ content' = on_ok(content, rsource.name, result.items)
            /\ success_count' = success_count + 1
            /\ error_count' = error_count
            /\ apc' = "loop"
       ELSE /\ content' = on_err(content, rsource.name, result.err)
            /\ error_count' = error_count + 1
            /\ success_count' = success_count
            /\ apc' = "done"
    /\ calls' = Append(calls, [ev |-> "return", name |-> rsource.name, ok |-> result.ok])
    /\ idx' = idx + 1
    /\ rpc' = "idle"
    /\ UNCHANGED <<target, sources, header>>
    /\ UNCHANGED <<rsource, maxAttempts, attempt, lastError, outcomes, sleeps, result>>
    /\ UNCHANGED <<engineVars, cmdVars>>

\* logic.rs:63-74: the await completes and the match arm runs.
AggReturn ==
    /\ apc = "await"
    /\ rpc = "returned"
    /\ IF result.ok
       THEN /\ content' = on_ok(content, rsource.name, result.items)
            /\ success_count' = success_count + 1
            /\ error_count' = error_count
       ELSE /\ content' = on_err(content, rsource.name, result.err)
            /\ error_count' = error_count + 1
            /\ success_count' = success_count
    /\ calls' = Append(calls, [ev |-> "return", name |-> rsource.name, ok |-> result.ok])
    /\ idx' = idx + 1
    /\ apc' = "loop"
    /\ rpc' = "idle"
    /\ UNCHANGED <<target, sources, header>>
    /\ UNCHANGED <<rsource, maxAttempts, attempt, lastError, outcomes, sleeps, result>>
    /\ UNCHANGED <<engineVars, cmdVars>>

\* logic.rs:77-82
AggFinish ==
    /\ apc = "loop"
    /\ idx > Len(sources)
    /\ apc' = "done"
    /\ UNCHANGED <<target, sources, idx, header, content, success_count, error_count, calls>>
    /\ UNCHANGED <<retryVars, engineVars, cmdVars>>

fetch_target == AggStart \/ AggCall \/ AggReturn \/ AggFinish

\* ------------------------------------------------------- utils.rs delays

\* utils.rs:12, in thousandths.
PHI_INVERSE_MILLI == 618

\* utils.rs:15, utils.rs:18
MIN_DELAY_MS == 100
MAX_DELAY_MS == 5000

\* consts.rs:118
BASE_DELAY_MS == 500

\* Ord::clamp
clamp(x, lo, hi) == IF x < lo THEN lo ELSE IF x > hi THEN hi ELSE x

\* utils.rs:46: rng.gen_range(-1.0..=1.0), in tenths.
NoiseDraws == {-10, -5, 0, 5, 10}

\* The values of base_ms the delay functions are tried on.
DelayBases == {0, 1, 61, 62, 99, 100, 161, 262, 500, 3090, 3091, 5000, 13090, 100000}

\* The clamp that forgets its upper end.
compute_golden_delay_unclamped_above(base_ms, noise) ==
    LET delay == (base_ms * (10000 + noise * PHI_INVERSE_MILLI)) \div 10000
    IN  IF delay < MIN_DELAY_MS THEN MIN_DELAY_MS ELSE delay

\* utils.rs:42-54: base * (1 + noise * PHI_INVERSE), truncated to u64 and
\* clamped.  The multiplier is kept in ten-thousandths.
compute_golden_delay(base_ms, noise) ==
    LET delay == (base_ms * (10000 + noise * PHI_INVERSE_MILLI)) \div 10000
    IN  clamp(delay, MIN_DELAY_MS, MAX_DELAY_MS)

\* A u32 above i32::MAX does not fit the integers of the checker: attempt is
\* the pair of its top bit and its low 31 bits.
I32Max == 2147483647
U32(top, low) == [top |-> top, low |-> low]

\* attempt - 1, for attempt >= 1.
PrevAttempt(a) ==
    IF a.low > 0 THEN U32(a.top, a.low - 1) ELSE U32(FALSE, I32Max)

\* utils.rs:62: attempt as i32 keeps the bits, so the top bit is the sign.
as_i32(a) == IF a.top THEN (a.low - I32Max) - 1 ELSE a.low

\* PHI^n (utils.rs:9) in thousandths, for n = 0 .. 30.
PhiPowers ==
    <<
       1000, 1618, 2618, 4236,
       6854, 11090, 17944, 29034,
       46978, 76013, 122991, 199005,
       321996, 521001, 842998, 1364000,
       2206999, 3571000, 5777999, 9349000,
       15126999, 24476000, 39602999, 64079000,
       103681999, 167761000, 271442999, 439204000,
       710646999, 1149851000, 1860497999 >>

\* Past the table the multiplier saturates (f64 goes on to infinity; the
\* clamp of progressive_delay is far below either).
PowSaturated == 2000000000

\* f64::powi(PHI, n) in thousandths: a negative exponent is the reciprocal.
powi_milli(n) ==
    IF n >= 0
    THEN IF n < Len(PhiPowers) THEN PhiPowers[n + 1] ELSE PowSaturated
    ELSE IF n <= 0 - Len(PhiPowers) THEN 0
    ELSE 1000000 \div PhiPowers[(0 - n) + 1]

\* ((base as f64) * multiplier) as u64, saturated at RawSaturated.
RawSaturated == 1000000
scaled(base_ms, m) ==
    IF base_ms = 0 \/ m = 0 THEN 0
    ELSE IF (m \div 1000) > RawSaturated \div base_ms THEN RawSaturated
    ELSE LET raw == (m \div 1000) * base_ms + ((m % 1000) * base_ms) \div 1000
         IN  IF raw > RawSaturated THEN RawSaturated ELSE raw

\* utils.rs:61-66
progressive_delay(base_ms, attempt_no) ==
    clamp(scaled(base_ms, powi_milli(as_i32(attempt_no))), MIN_DELAY_MS, MAX_DELAY_MS * 2)

\* The attempts progressive_delay is tried on.
DelayAttempts ==
    {U32(FALSE, n) : n \in {0, 1, 2, 3, 4, 5, 6, 7, 10, 20, 40, 65, I32Max}}
        \cup {U32(TRUE, n) : n \in {0, 1, I32Max}}

\* utils.rs:35-38: fibonacci_delay(base_ms) computes the delay and sleeps it.
fibonacci_delay ==
    /\ dpc = "golden"
    /\ \E noise \in NoiseDraws : ddelay' = compute_golden_delay(dbase, noise)
    /\ dpc' = "golden_done"
    /\ UNCHANGED <<dbase, dattempt>>
    /\ UNCHANGED <<aggVars, retryVars, fetchVars, trVars, textVars, cmdVars>>

\* utils.rs:61-66, called once.
ProgressiveDelay ==
    /\ dpc = "progressive"
    /\ ddelay' = progressive_delay(dbase, dattempt)
    /\ dpc' = "progressive_done"
    /\ UNCHANGED <<dbase, dattempt>>
    /\ UNCHANGED <<aggVars, retryVars, fetchVars, trVars, textVars, cmdVars>>

\* ------------------------------------------------------------ text model

\* Longest feed / page / result array handed to a parser.
MaxEntries == 7

\* consts.rs limits::MAX_ITEMS_PER_SOURCE
MAX_ITEMS_PER_SOURCE == 5

\* What an entry of a feed, a wrapper node of a page or a result object of
\* the API carries as its title / message text:
\*   good  a text the Junk Classifier lets through
\*   junk  a text the Junk Classifier rejects
\*   none  no title / no text node at all
EntryKinds == {"good", "junk", "none"}

EntrySeqs == UNION {[1..n -> EntryKinds] : n \in 0..MaxEntries}

\* A piece of text: which entry it came from, its class, and whether
\* clean_text has normalised it.
Text(id, cls) == [id |-> id, cls |-> cls, clean |-> FALSE]

\* String::default(), the empty string.
EmptyString == [id |-> 0, cls |-> "empty", clean |-> TRUE]

\* A string literal of the program.
Literal(name) == [id |-> name, cls |-> "literal", clean |-> TRUE]

\* utils.rs clean_text: whitespace collapsed, entities decoded.
clean_text(t) == IF t.cls = "empty" THEN t ELSE [t EXCEPT !.clean = TRUE]

\* utils::is_junk is imported by network.rs:4 but not defined in utils.rs;
\* by section 4.3 it rejects system messages, off-topic keywords and bare
\* links, none of which the empty string or "No Title" is.
is_junk(t) == t.cls = "junk"

\* Option<T> as a sequence of at most one element.
None    == <<>>
Some(x) == <<x>>

\* network.rs:23-36
NewsItem(title, time_str) ==
    [title |-> title, description |-> None, link |-> None, time_str |-> time_str]
with_desc(item, desc) == [item EXCEPT !.description = desc]
with_link(item, link) == [item EXCEPT !.link = link]

Min(a, b) == IF a <= b THEN a ELSE b

\* Iterator::take
Take(s, n) == SubSeq(s, 1, Min(n, Len(s)))

\* Vec::reverse
Reverse(s) == [i \in 1..Len(s) |-> s[Len(s) + 1 - i]]

\* --------------------------------------------------- network responses

\* status is the HTTP status of the answer; no parser reads it.
Response(transport, wellformed, key, entries, price, percent) ==
    [transport |-> transport, wellformed |-> wellformed, key |-> key,
     entries |-> entries, price |-> price, percent |-> percent, status |-> 200]

\* The same answer under another HTTP status.
WithStatus(r, status) == [r EXCEPT !.status = status]

NoResponse == Response(FALSE, FALSE, FALSE, <<>>, FALSE, FALSE)

\* The request failed (connect error, timeout): reqwest::Error.
TransportFailure == Response(FALSE, TRUE, TRUE, <<>>, FALSE, FALSE)

\* The body is no feed / no JSON.
Malformed == Response(TRUE, FALSE, TRUE, <<>>, FALSE, FALSE)

\* NEWSDATA_KEY is not set.
KeyMissing == Response(TRUE, TRUE, FALSE, <<>>, FALSE, FALSE)

Listing(entries) == Response(TRUE, TRUE, TRUE, entries, FALSE, FALSE)

PricePage(price, percent) == Response(TRUE, TRUE, TRUE, <<>>, price, percent)

\* The source types NewsEngine::fetch dispatches on.
EngineSourceType == {"TelegramHtml", "Rss", "NewsData", "Html"}

Responses(source_type) ==
    CASE source_type = "Rss" ->
            {TransportFailure, Malformed} \cup {Listing(e) : e \in EntrySeqs}
      [] source_type = "TelegramHtml" ->
            {TransportFailure} \cup {Listing(e) : e \in EntrySeqs}
      [] source_type = "NewsData" ->
            {KeyMissing, TransportFailure, Malformed} \cup {Listing(e) : e \in EntrySeqs}
      [] source_type = "Html" ->
            {TransportFailure} \cup {PricePage(p, c) : p, c \in BOOLEAN}

\* The sources fetch is tried on: registry sources of both types, of the
\* price category, and sources of the two types only the engine knows.
FetchSources ==
    { SOURCES[1], SOURCES[2], SOURCES[10],
      Source("Gold", "Html", "Commodities"),
      Source("Oil", "Html", "Commodities"),
      Source("Silver", "Html", "Commodities"),
      Source("NewsData", "NewsData", "Market") }

\* ------------------------------------------------ network.rs: the parsers

\* network.rs:78-95
fetch_newsdata(r) ==
    IF ~r.key THEN Err("NoKey")
    ELSE IF ~r.transport THEN Err("Http")
    ELSE IF ~r.wellformed THEN Err("Http")
    ELSE
      LET n == Min(MAX_ITEMS_PER_SOURCE, Len(r.entries))
          title(i) == IF r.entries[i] = "none" THEN Literal("No Title")
                      ELSE Text(i, r.entries[i])
          item(i)  == with_link(with_desc(NewsItem(title(i), Literal(<<"pubDate", i>>)),
                                          Some(clean_text(Text(i, "desc")))),
                                Some(i))
          kept     == SelectSeq([i \in 1..n |-> i], LAMBDA i : ~is_junk(title(i)))
          items    == [k \in 1..Len(kept) |-> item(kept[k])]
      IN  IF items = <<>> THEN Err("Empty") ELSE Ok(items)

\* network.rs:101-107: take, then filter_map, in feed order.
rss_items(entries) ==
    LET n == Min(MAX_ITEMS_PER_SOURCE, Len(entries))
        title(i) == IF entries[i] = "none" THEN EmptyString ELSE Text(i, entries[i])
        item(i)  == with_link(with_desc(NewsItem(clean_text(title(i)), Literal("RSS")),
                                        Some(clean_text(Text(i, "desc")))),
                              Some(i))
        kept     == SelectSeq([i \in 1..n |-> i], LAMBDA i : ~is_junk(title(i)))
    IN  [k \in 1..Len(kept) |-> item(kept[k])]

\* network.rs:97-109
fetch_rss(r) ==
    IF ~r.transport THEN Err("Http")
    ELSE IF ~r.wellformed THEN Err("Empty")
    ELSE Ok(rss_items(r.entries))

\* A scan that ends at the first junk post instead of skipping it.
RECURSIVE tg_scan_stops_at_junk(_, _, _)
tg_scan_stops_at_junk(nodes, i, items) ==
    IF i = 0 \/ Len(items) >= MAX_ITEMS_PER_SOURCE THEN items
    ELSE IF nodes[i] = "none" THEN tg_scan_stops_at_junk(nodes, i - 1, items)
    ELSE LET cleaned == clean_text(Text(i, nodes[i]))
         IN  IF is_junk(cleaned) THEN items
             ELSE tg_scan_stops_at_junk(nodes, i - 1,
                    Append(items, with_link(NewsItem(cleaned, Literal(<<"date", i>>)), Some(i))))

\* network.rs:115-128: the loop over the wrapper nodes from the last one
\* backwards; i is the node visited next, items the Vec so far.
RECURSIVE tg_scan(_, _, _)
tg_scan(nodes, i, items) ==
    IF i = 0 \/ Len(items) >= MAX_ITEMS_PER_SOURCE THEN items
    ELSE IF nodes[i] = "none" THEN tg_scan(nodes, i - 1, items)
    ELSE LET cleaned == clean_text(Text(i, nodes[i]))
         IN  IF is_junk(cleaned) THEN tg_scan(nodes, i - 1, items)
             ELSE tg_scan(nodes, i - 1,
                    Append(items, with_link(NewsItem(cleaned, Literal(<<"date", i>>)), Some(i))))

\* network.rs:111-132
fetch_telegram(r) ==
    IF ~r.transport THEN Err("Http")
    ELSE LET items == tg_scan(r.entries, Len(r.entries), <<>>)
         IN  IF items = <<>> THEN Err("Empty") ELSE Ok(Reverse(items))

\* network.rs:135-185: a price and an optional percent change are cut out
\* of the page by the patterns of Gold or of Oil; no other name has any.
fetch_html(source, r) ==
    IF ~r.transport THEN Err("Http")
    ELSE IF ~(source.name \in {"Gold", "Oil"} /\ r.price) THEN Err("Parse")
    ELSE LET title == IF r.percent
                      THEN Literal(<<source.name, "Price:", "price", "percent">>)
                      ELSE Literal(<<source.name, "Price:", "price">>)
         IN  Ok(<<with_link(NewsItem(title, Literal("HH:MM")), Some(source.name))>>)

\* -------------------------------------------- network.rs: NewsEngine::fetch

\* network.rs:69-74: the closure handed to map returns the items as they are.
map_items(res) == IF res.ok THEN Ok(res.items) ELSE res

\* network.rs:61: fibonacci_delay(limits::BASE_DELAY_MS).await
FetchDelay ==
    /\ fpc = "start"
    /\ \E noise \in NoiseDraws :
           fdelays' = Append(fdelays, compute_golden_delay(BASE_DELAY_MS, noise))
    /\ fpc' = "delayed"
    /\ UNCHANGED <<fsource, flang, resp, translations, fresult>>
    /\ UNCHANGED <<aggVars, retryVars, trVars, utilVars, cmdVars>>

FetchReturns(res) ==
    /\ fpc = "delayed"
    /\ fresult' = map_items(res)
    /\ fpc' = "done"
    /\ UNCHANGED <<fsource, flang, resp, fdelays, translations>>
    /\ UNCHANGED <<aggVars, retryVars, trVars, utilVars, cmdVars>>

\* network.rs:64
FetchTelegram ==
    /\ fsource.source_type = "TelegramHtml"
    /\ FetchReturns(fetch_telegram(resp))

\* network.rs:65
FetchRss ==
    /\ fsource.source_type = "Rss"
    /\ FetchReturns(fetch_rss(resp))

\* network.rs:66
FetchNewsData ==
    /\ fsource.source_type = "NewsData"
    /\ FetchReturns(fetch_newsdata(resp))

\* network.rs:67
FetchHtml ==
    /\ fsource.source_type = "Html"
    /\ FetchReturns(fetch_html(fsource, resp))

fetch == FetchDelay \/ FetchTelegram \/ FetchRss \/ FetchNewsData \/ FetchHtml

\* ------------------------------------------------ translate.rs translate_text

\* Most sentences in the body of a translation response.
MaxSentences == 2

\* Result<String, Box<dyn Error>>
TOk(text) == [ok |-> TRUE, text |-> text, err |-> "-"]
TErr(e)   == [ok |-> FALSE, text |-> <<>>, err |-> e]
NoTranslation == [ok |-> FALSE, text |-> <<>>, err |-> "pending"]

\* One element of the array raw_json[0]: an array or not; if an array, what
\* its element 0 is; if that is a string, its characters.
Sentence(arr, head, text) == [arr |-> arr, head |-> head, text |-> text]

SentenceKinds ==
    { Sentence(TRUE, "string", <<"p">>),
      Sentence(TRUE, "string", <<"q", "r">>),
      Sentence(TRUE, "string", <<>>),
      Sentence(TRUE, "null", <<>>),
      Sentence(FALSE, "-", <<>>) }

\* A JSON value: what raw_json.get(0) is (nothing, something that is no
\* array, or an array) and the elements of that array.
Json(first, sentences) == [first |-> first, sentences |-> sentences]

JsonValues ==
    {Json("none", <<>>), Json("scalar", <<>>)}
    \cup {Json("array", s) : s \in UNION {[1..n -> SentenceKinds] : n \in 0..MaxSentences}}

TranslateResponse(transport, status, json, body) ==
    [transport |-> transport, status |-> status, json |-> json, body |-> body]

NoTranslateResponse == TranslateResponse(FALSE, 0, FALSE, Json("none", <<>>))

Statuses == {200, 204, 403, 429, 500}

TranslateResponses ==
    {TranslateResponse(FALSE, 0, FALSE, Json("none", <<>>))}
    \cup {TranslateResponse(TRUE, st, FALSE, Json("none", <<>>)) : st \in Statuses}
    \cup {TranslateResponse(TRUE, st, TRUE, b) : st \in Statuses, b \in JsonValues}

\* The texts handed to translate_text, as character sequences.
TranslateTexts == {<<>>, <<"a">>, <<"a", "b">>}

\* StatusCode::is_success
is_success(status) == 200 <= status /\ status <= 299

\* translate.rs:36-46: the strings at element 0 of the sentences, concatenated.
RECURSIVE extract_sentences(_, _)
extract_sentences(sentences, i) ==
    IF i > Len(sentences) THEN <<>>
    ELSE (IF sentences[i].arr /\ sentences[i].head = "string"
          THEN sentences[i].text ELSE <<>>)
         \o extract_sentences(sentences, i + 1)

extract(body) ==
    IF body.first = "array" THEN extract_sentences(body.sentences, 1) ELSE <<>>

\* translate.rs:48-52
translated_or_original(text, translated_text) ==
    IF translated_text = <<>> THEN TOk(text) ELSE TOk(translated_text)

TrReturn(res) ==
    /\ tresult' = res
    /\ tpc' = "done"
    /\ UNCHANGED <<ttext, tlang, tresp>>
    /\ UNCHANGED <<aggVars, retryVars, fetchVars, utilVars, cmdVars>>

\* translate.rs:24-27: send().await? fails
TrSendFails ==
    /\ tpc = "send"
    /\ ~tresp.transport
    /\ TrReturn(TErr("transport"))

\* translate.rs:29-31
TrStatusFails ==
    /\ tpc = "send"
    /\ tresp.transport
    /\ ~is_success(tresp.status)
    /\ TrReturn(TErr("status"))

\* translate.rs:24-33: the response has a success status; its body is awaited.
TrSendOk ==
    /\ tpc = "send"
    /\ tresp.transport
    /\ is_success(tresp.status)
    /\ tpc' = "json"
    /\ UNCHANGED <<ttext, tlang, tresp, tresult>>
    /\ UNCHANGED <<aggVars, retryVars, fetchVars, utilVars, cmdVars>>

\* translate.rs:33: response.json().await? fails
TrJsonFails ==
    /\ tpc = "json"
    /\ ~tresp.json
    /\ TrReturn(TErr("json"))

\* translate.rs:33-52
TrExtract ==
    /\ tpc = "json"
    /\ tresp.json
    /\ TrReturn(translated_or_original(ttext, extract(tresp.body)))

translate_text == TrSendFails \/ TrStatusFails \/ TrSendOk \/ TrJsonFails \/ TrExtract

\* ---------------------------------------- utils.rs truncate_text, strings

\* Longest text tried, in characters, and largest max_len tried.
MaxTextChars == 4
MaxLen == 8

\* The characters of a text: a letter of one byte, a Cyrillic letter of two,
\* an emoji of four, a space and a line feed.
TextChars == {"a", "ya", "emoji", "sp", "nl"}

\* The length of a character's UTF-8 encoding.
len_utf8(c) ==
    CASE c = "ya" -> 2
      [] c = "emoji" -> 4
      [] OTHER -> 1

\* A String is its bytes; a byte is the k-th of its character.
CharBytes(c) == [k \in 1..len_utf8(c) |-> [ch |-> c, k |-> k]]

RECURSIVE Bytes(_)
Bytes(text) ==
    IF text = <<>> THEN <<>> ELSE CharBytes(Head(text)) \o Bytes(Tail(text))

Texts == UNION {[1..n -> TextChars] : n \in 0..MaxTextChars}

\* str::is_char_boundary
is_char_boundary(b, i) ==
    \/ i = 0
    \/ i = Len(b)
    \/ i < Len(b) /\ b[i + 1].k = 1

is_whitespace(c) == c \in {"sp", "nl"}

RECURSIVE trim_start(_)
trim_start(text) ==
    IF text # <<>> /\ is_whitespace(Head(text)) THEN trim_start(Tail(text)) ELSE text

RECURSIVE trim_end(_)
trim_end(text) ==
    IF text # <<>> /\ is_whitespace(text[Len(text)])
    THEN trim_end(SubSeq(text, 1, Len(text) - 1))
    ELSE text

\* str::trim
trim(text) == trim_end(trim_start(text))

saturating_sub(a, b) == IF a > b THEN a - b ELSE 0

\* utils.rs:80-82: while end > 0 && !trimmed.is_char_boundary(end) { end -= 1 }
RECURSIVE safe_end(_, _)
safe_end(b, end) ==
    IF end > 0 /\ ~is_char_boundary(b, end) THEN safe_end(b, end - 1) ELSE end

\* "..."
Ellipsis == Bytes(<<"dot", "dot", "dot">>)

\* The cut taken at max_len - 3 wherever that falls.
truncate_text_cut_anywhere(text, max_len) ==
    LET trimmed == Bytes(trim(text))
    IN  IF Len(trimmed) <= max_len
        THEN trimmed
        ELSE SubSeq(trimmed, 1, saturating_sub(max_len, 3)) \o Ellipsis

\* utils.rs:71-85
truncate_text(text, max_len) ==
    LET trimmed == Bytes(trim(text))
    IN  IF Len(trimmed) <= max_len
        THEN trimmed
        ELSE SubSeq(trimmed, 1, safe_end(trimmed, saturating_sub(max_len, 3))) \o Ellipsis

\* truncate_text(text, max_len) is called once.
Truncate ==
    /\ xpc = "truncate"
    /\ xout' = truncate_text(xtext, xmax)
    /\ xpc' = "truncate_done"
    /\ UNCHANGED <<xtext, xmax, xstart, xchunks>>
    /\ UNCHANGED <<aggVars, retryVars, fetchVars, trVars, delayVars, cmdVars>>

\* ------------------------------------------------ main.rs split_message

\* The loop of split_message is followed for this many chunks.
MaxChunks == MaxTextChars + 1

\* main.rs:208-210: while !text.is_char_boundary(end) { end -= 1 }
RECURSIVE back_to_boundary(_, _)
back_to_boundary(b, end) ==
    IF ~is_char_boundary(b, end) THEN back_to_boundary(b, end - 1) ELSE end

\* text[start..end].rfind('\n'): the offsets of the line feeds in the range.
newlines(b, start, end) == {p \in 0..(end - start - 1) : b[start + p + 1].ch = "nl"}

Max(S) == CHOOSE x \in S : \A y \in S : y <= x

\* main.rs:212-223: the end of the chunk that starts at start.
chunk_end(b, start, max_len) ==
    LET end == back_to_boundary(b, start + max_len)
        found == newlines(b, start, end)
    IN  IF found # {} /\ start + Max(found) + 1 > start
        THEN start + Max(found) + 1
        ELSE end

\* main.rs:197, 227: the loop test fails and chunks is returned.
SplitReturn ==
    /\ xpc = "split"
    /\ ~(xstart < Len(Bytes(xtext)))
    /\ xpc' = "split_done"
    /\ UNCHANGED <<xtext, xmax, xout, xstart, xchunks>>
    /\ UNCHANGED <<aggVars, retryVars, fetchVars, trVars, delayVars, cmdVars>>

\* main.rs:198-205: the rest fits; it is pushed and the loop is left.
SplitLast ==
    /\ xpc = "split"
    /\ xstart < Len(Bytes(xtext))
    /\ xstart + xmax >= Len(Bytes(xtext))
    /\ xchunks' = Append(xchunks, <<xstart, Len(Bytes(xtext))>>)
    /\ xpc' = "split_done"
    /\ UNCHANGED <<xtext, xmax, xout, xstart>>
    /\ UNCHANGED <<aggVars, retryVars, fetchVars, trVars, delayVars, cmdVars>>

\* main.rs:207-226: one chunk is cut and the loop goes on behind it.
SplitChunk ==
    /\ xpc = "split"
    /\ Len(xchunks) < MaxChunks
    /\ xstart < Len(Bytes(xtext))
    /\ xstart + xmax < Len(Bytes(xtext))
    /\ LET end == chunk_end(Bytes(xtext), xstart, xmax)
       IN  /\ xchunks' = Append(xchunks, <<xstart, end>>)
           /\ xstart' = end
    /\ UNCHANGED <<xpc, xtext, xmax, xout>>
    /\ UNCHANGED <<aggVars, retryVars, fetchVars, trVars, delayVars, cmdVars>>

split_message == SplitReturn \/ SplitLast \/ SplitChunk

\* ------------------------------------------------ main.rs handle_command

\* main.rs:23-60: enum Command
Commands ==
    {"Start", "Help", "Global", "War", "Market", "Rbc", "Kommersant", "Aljazeera",
     "Deepstate", "Tass", "Monitor", "Bloomberg", "Markettwits", "Tree"}

\* str::to_lowercase on the strings resolve_command is given.
to_lowercase(s) == IF s \in DOMAIN AsciiLower THEN AsciiLower[s] ELSE s

\* logic.rs:123-146: the arms of the match.
Routes ==
    [s \in {"global", "war", "market", "commodities", "reuters", "kommersant",
            "aljazeera", "deepstate", "tass", "liveuamap", "bloomberg",
            "markettwits", "tree", "gold", "oil"} |->
        CASE s = "global"      -> TargetCategory("Global")
          [] s = "war"         -> TargetCategory("War")
          [] s = "market"      -> TargetCategory("Market")
          [] s = "commodities" -> TargetCategory("Commodities")
          [] s = "reuters"     -> TargetSource("Reuters")
          [] s = "kommersant"  -> TargetSource("Kommersant")
          [] s = "aljazeera"   -> TargetSource("AlJazeera")
          [] s = "deepstate"   -> TargetSource("DeepState")
          [] s = "tass"        -> TargetSource("TASS")
          [] s = "liveuamap"   -> TargetSource("Liveuamap")
          [] s = "bloomberg"   -> TargetSource("Bloomberg")
          [] s = "markettwits" -> TargetSource("MarketTwits")
          [] s = "tree"        -> TargetSource("TreeOfAlpha")
          [] s = "gold"        -> TargetSource("Gold")
          [] s = "oil"         -> TargetSource("Oil")]

\* logic.rs:121-150
resolve_command(s) ==
    IF to_lowercase(s) \in DOMAIN Routes THEN Some(Routes[to_lowercase(s)]) ELSE None

\* main.rs:65-79: the string to_target hands to resolve_command.
cmd_str(c) ==
    CASE c = "Global"      -> "global"
      [] c = "War"         -> "war"
      [] c = "Market"      -> "market"
      [] c = "Rbc"         -> "rbc"
      [] c = "Kommersant"  -> "kommersant"
      [] c = "Aljazeera"   -> "aljazeera"
      [] c = "Deepstate"   -> "deepstate"
      [] c = "Tass"        -> "tass"
      [] c = "Monitor"     -> "monitor"
      [] c = "Bloomberg"   -> "bloomberg"
      [] c = "Markettwits" -> "markettwits"
      [] c = "Tree"        -> "tree"

\* main.rs:64-81
to_target(c) ==
    IF c \in {"Start", "Help"} THEN None ELSE resolve_command(cmd_str(c))

\* main.rs:141-146: Start and Help are answered with the help message.
HandleHelp ==
    /\ hpc = "received"
    /\ cmd \in {"Start", "Help"}
    /\ replies' = Append(replies, "help")
    /\ hpc' = "done"
    /\ UNCHANGED cmd
    /\ UNCHANGED <<aggVars, retryVars, engineVars>>

\* main.rs:149-156: to_target gives None.
HandleUnknown ==
    /\ hpc = "received"
    /\ cmd \notin {"Start", "Help"}
    /\ to_target(cmd) = None
    /\ replies' = Append(replies, "Unknown command")
    /\ hpc' = "done"
    /\ UNCHANGED cmd
    /\ UNCHANGED <<aggVars, retryVars, engineVars>>

\* main.rs:149-164: the loading indicator is sent and fetch_target called.
HandleFetch ==
    /\ hpc = "received"
    /\ cmd \notin {"Start", "Help"}
    /\ to_target(cmd) # None
    /\ replies' = Append(replies, "Fetching")
    /\ target' = to_target(cmd)[1]
    /\ apc' = "start"
    /\ hpc' = "fetching"
    /\ UNCHANGED <<cmd, sources, idx, header, content, success_count, error_count, calls>>
    /\ UNCHANGED <<retryVars, engineVars>>

\* main.rs:167-189: fetch_target has returned; the loading indicator is
\* deleted and the response sent, whole or in chunks.
HandleRespond ==
    /\ hpc = "fetching"
    /\ apc = "done"
    /\ replies' = <<"response">>
    /\ hpc' = "done"
    /\ UNCHANGED cmd
    /\ UNCHANGED <<aggVars, retryVars, engineVars>>

handle_command ==
    \/ HandleHelp
    \/ HandleUnknown
    \/ HandleFetch
    \/ HandleRespond
    \/ (hpc = "fetching" /\ (fetch_target \/ fetch_with_retry))

\* ------------------------------------------------ claims: retry wrapper

Count(seq, P(_)) == Len(SelectSeq(seq, P))

\* The last error of outs that the loop records (any error but RateLimited);
\* 0 when there is none.
LastRecorded(outs) ==
    LET rec == {i \in 1..Len(outs) : outs[i] \notin {"Ok", "RateLimited"}}
    IN  IF rec = {} THEN 0 ELSE CHOOSE i \in rec : \A j \in rec : j <= i

\* C1: a success at attempt index k ends the call: it is the last attempt
\* made (exactly k+1 attempts, no attempt after it), k is below the budget,
\* and the value returned is that attempt's item list; and a call that
\* returned a success made its last attempt successfully.
C1_FirstSuccessReturned ==
    /\ \A k \in 1..Len(outcomes) :
          outcomes[k] = "Ok" =>
              /\ k = Len(outcomes)
              /\ k <= maxAttempts
              /\ rpc \in {"returned", "idle"}
              /\ result = Ok(<<k - 1>>)
    /\ (rpc = "returned" /\ result.ok) =>
          /\ Len(outcomes) >= 1
          /\ outcomes[Len(outcomes)] = "Ok"

\* RateLimited, RateLimited, success with a budget of 3.
C1_Witness ==
    /\ apc = "direct"
    /\ maxAttempts = 3
    /\ rpc = "returned"
    /\ outcomes = <<"RateLimited", "RateLimited", "Ok">>
    /\ result = Ok(<<2>>)

\* C2: a call with a budget of at least 1 that returns an error made exactly
\* maxAttempts attempts, all failed; the error is the last one recorded (the
\* last that is not RateLimited) when one was recorded; every failed attempt
\* but the first was preceded by one retry delay, and exactly the RateLimited
\* attempts were followed by the extended backoff.  The loop never runs past
\* its budget.
C2_AllFailReturnsLastError ==
    /\ attempt <= maxAttempts
    /\ Len(outcomes) <= maxAttempts
    /\ (rpc = "returned" /\ ~result.ok /\ maxAttempts >= 1) =>
          /\ Len(outcomes) = maxAttempts
          /\ \A k \in 1..Len(outcomes) : outcomes[k] \in ErrorKinds
          /\ result.err \in ErrorKinds
          /\ LastRecorded(outcomes) # 0 => result.err = outcomes[LastRecorded(outcomes)]
          /\ Count(sleeps, LAMBDA d : d[1] = "retry") = maxAttempts - 1
          /\ Count(sleeps, LAMBDA d : d[1] = "extended")
                = Count(outcomes, LAMBDA o : o = "RateLimited")

\* NotFound on each of 3 attempts.
C2_Witness ==
    /\ apc = "direct"
    /\ maxAttempts = 3
    /\ rpc = "returned"
    /\ outcomes = <<"NotFound", "NotFound", "NotFound">>
    /\ result = Err("NotFound")

\* --------------------------------------------------- claims: Aggregator

\* The blocks of content, one per source, without the separating newlines.
Blocks(c) == SelectSeq(c, LAMBDA p : p.fmt # "newline")

\* What fetch_with_retry returned, call by call.
Returns == SelectSeq(calls, LAMBDA e : e.ev = "return")

\* C3: when fetch_target has returned for a target with sources, every
\* source was fetched whatever the earlier ones returned: the two counts add
\* up to the number of sources, each counts the calls of its kind, and
\* content holds one block per source, of the kind of that source's outcome.
C3_NoAbortOnFailure ==
    (apc = "done" /\ sources # <<>>) =>
        /\ Len(Returns) = Len(sources)
        /\ success_count + error_count = Len(sources)
        /\ success_count = Count(Returns, LAMBDA e : e.ok)
        /\ error_count = Count(Returns, LAMBDA e : ~e.ok)
        /\ Len(Blocks(content)) = Len(sources)
        /\ \A i \in 1..Len(sources) :
              /\ Blocks(content)[i].name = sources[i].name
              /\ Blocks(content)[i].fmt = IF Returns[i].ok THEN "results" ELSE "error"

\* A category of two sources, the first succeeding and the second Empty.
C3_Witness ==
    /\ apc = "done"
    /\ target = TargetCategory("Commodities")
    /\ success_count = 1
    /\ error_count = 1
    /\ Blocks(content)[1].fmt = "results"
    /\ Blocks(content)[2] = format_error("Oil", "Empty")

\* A first source that fails, followed by sources that are still fetched.
C3_WitnessFailFirst ==
    /\ apc = "done"
    /\ Len(sources) = 3
    /\ ~Returns[1].ok
    /\ Returns[3].ok

\* C4: a target that resolves to no source makes fetch_target return at
\* once with 0 successes, 1 error and the "no sources" content, without any
\* call of the Fetch Engine.
C4_EmptyResolution ==
    (apc \notin {"start", "direct"} /\ resolve(target) = <<>>) =>
        /\ apc = "done"
        /\ success_count = 0
        /\ error_count = 1
        /\ content = <<NoSourcesFound>>
        /\ calls = <<>>
        /\ rpc = "idle"
        /\ outcomes = <<>>

C4_Witness ==
    /\ apc = "done"
    /\ target = TargetSource("RBC")
    /\ sources = <<>>
    /\ error_count = 1

\* Position of a source in the registry.
RegistryIndex(name) == CHOOSE i \in 1..Len(SOURCES) : SOURCES[i].name = name

\* C5: the calls of fetch_with_retry and their returns alternate strictly,
\* source by source in registry order: the i-th call is for the i-th
\* resolved source and returns before the next call, so at most one fetch
\* is in flight and the retry wrapper runs only while fetch_target awaits
\* it; at the end every source was called exactly once, and the blocks of
\* content are in registry order.
C5_SequentialRegistryOrder ==
    apc \notin {"start", "direct"} =>
        /\ \A i \in 1..Len(sources) - 1 :
              RegistryIndex(sources[i].name) < RegistryIndex(sources[i + 1].name)
        /\ Len(calls) <= 2 * Len(sources)
        /\ \A i \in 1..Len(calls) :
              /\ calls[i].ev = IF i % 2 = 1 THEN "call" ELSE "return"
              /\ calls[i].name = sources[(i + 1) \div 2].name
        /\ Count(calls, LAMBDA e : e.ev = "call") - Len(Returns)
              = IF apc = "await" THEN 1 ELSE 0
        /\ rpc \in {"top", "fetch", "returned"} => apc = "await"
        /\ apc = "done" => Len(calls) = 2 * Len(sources)
        /\ \A i \in 1..Len(Blocks(content)) :
              sources # <<>> => Blocks(content)[i].name = sources[i].name

\* The second source of a category is being retried after the first returned.
C5_Witness ==
    /\ apc = "await"
    /\ Len(sources) = 3
    /\ idx = 2
    /\ rpc = "fetch"
    /\ attempt = 1
    /\ Len(calls) = 3

\* ------------------------------------------------ claims: Fetch Engine

\* The entries an item list was built from, item by item (every item of a
\* feed or page carries the link of its entry).
ItemIds(items) == [k \in 1..Len(items) |-> items[k].link[1]]

\* The last n elements of q (all of q if it has fewer).
Newest(q, n) == SubSeq(q, Len(q) - Min(n, Len(q)) + 1, Len(q))

\* The response is a listing the parser can read.
Readable == resp.transport /\ resp.wellformed /\ resp.key

\* C6: for a source whose language is not "ru", a fetch that
\* succeeds has started one translation sub-task per item and returns as
\* many items as were parsed.
C6_TranslationPerItem ==
    (fpc = "done" /\ fresult.ok /\ flang # "ru") =>
        /\ Len(translations) = Len(fresult.items)
        /\ \A i \in 1..Len(fresult.items) : \E k \in 1..Len(translations) : translations[k] = i

\* Wrapper nodes that have a text node whose cleaned text is not junk, in
\* document order.
TgQualifying(nodes) ==
    SelectSeq([i \in 1..Len(nodes) |-> i],
              LAMBDA i : nodes[i] # "none" /\ ~is_junk(clean_text(Text(i, nodes[i]))))

\* C8: on a page that loaded, the Telegram-mirror parser returns the
\* MAX_ITEMS_PER_SOURCE newest qualifying wrapper nodes (all of them if there
\* are fewer) in document order, each with its own cleaned text as title,
\* wherever junk nodes and nodes without text stand; it returns Empty exactly
\* when no node qualifies.
C8_TelegramNewestInDocumentOrder ==
    (fpc = "done" /\ fsource.source_type = "TelegramHtml" /\ resp.transport) =>
        LET q == TgQualifying(resp.entries)
        IN  IF q = <<>>
            THEN fresult = Err("Empty")
            ELSE /\ fresult.ok
                 /\ ItemIds(fresult.items) = Newest(q, MAX_ITEMS_PER_SOURCE)
                 /\ \A k \in 1..Len(fresult.items) :
                       fresult.items[k].title
                           = clean_text(Text(ItemIds(fresult.items)[k], "good"))

\* Six qualifying nodes around a junk node and before a trailing node
\* without text: the five newest come back, oldest first.
C8_Witness ==
    /\ fpc = "done"
    /\ fsource.source_type = "TelegramHtml"
    /\ resp.entries = <<"good", "good", "junk", "good", "good", "good", "good">>
    /\ fresult.ok
    /\ ItemIds(fresult.items) = <<2, 4, 5, 6, 7>>

\* The entries of a feed that survive among its first MAX_ITEMS_PER_SOURCE.
RssKept(entries) ==
    SelectSeq([i \in 1..Min(MAX_ITEMS_PER_SOURCE, Len(entries)) |-> i],
              LAMBDA i : entries[i] # "junk")

\* C9: the RSS parser returns the entries it took from the
\* newest-first feed in reversed, oldest-to-newest order.
C9_RssOldestToNewest ==
    (fpc = "done" /\ fsource.source_type = "Rss" /\ Readable /\ fresult.ok) =>
        ItemIds(fresult.items) = Reverse(RssKept(resp.entries))

\* C10: fetch returns either an error or between 1 and
\* MAX_ITEMS_PER_SOURCE items, each with a non-empty title that is not junk.
C10_NeverOkEmpty ==
    (fpc = "done" /\ fresult.ok) =>
        /\ Len(fresult.items) >= 1
        /\ Len(fresult.items) <= MAX_ITEMS_PER_SOURCE
        /\ \A k \in 1..Len(fresult.items) :
              /\ fresult.items[k].title.cls # "empty"
              /\ ~is_junk(fresult.items[k].title)

\* C11: for a registry source of the Commodities category, every item fetch
\* returns went through the price post-filter: its title is a bare price
\* token and its description is discarded.
C11_PricePostFilter ==
    (fpc = "done" /\ fresult.ok /\ fsource.category = "Commodities"
        /\ \E i \in 1..Len(SOURCES) : SOURCES[i] = fsource) =>
        \A k \in 1..Len(fresult.items) :
            /\ fresult.items[k].title.cls = "price"
            /\ fresult.items[k].description = None

\* C15: an answer with status 429, 403 or 404 makes fetch return
\* RateLimited, Forbidden or NotFound, whatever its body holds.
C15_StatusDeterminesOutcome ==
    (fpc = "done" /\ resp.transport /\ resp.key) =>
        /\ resp.status = 429 => fresult = Err("RateLimited")
        /\ resp.status = 403 => fresult = Err("Forbidden")
        /\ resp.status = 404 => fresult = Err("NotFound")

\* ------------------------------------------------ claims: Stealth Timing

\* C12: whatever the base delay above 0 and the noise drawn, the
\* pre-request delay lies in [100, 5000] ms; and fetch has slept one such
\* delay, and produced no result, before it dispatches to a parser.
C12_GoldenDelayBounded ==
    /\ (dpc = "golden_done" /\ dbase > 0) => ddelay \in MIN_DELAY_MS..MAX_DELAY_MS
    /\ fpc = "start" => (fdelays = <<>> /\ fresult = NoResult)
    /\ fpc = "delayed" => fresult = NoResult
    /\ fpc \in {"delayed", "done"} =>
          /\ Len(fdelays) = 1
          /\ fdelays[1] \in MIN_DELAY_MS..MAX_DELAY_MS

\* A base whose raw delay is above the range under every draw.
C12_Witness ==
    /\ dpc = "golden_done"
    /\ dbase = 100000
    /\ ddelay = MAX_DELAY_MS

\* fetch returned a parser's result after its one delay.
PreRequestDelaySlept ==
    /\ fpc = "done"
    /\ fresult.ok
    /\ Len(fdelays) = 1

\* C13: the retry delay never shrinks from one attempt index to the next,
\* and lies in [100, 10000] ms for every attempt index.
C13_ProgressiveMonotoneBounded ==
    dpc = "progressive_done" =>
        /\ ddelay \in MIN_DELAY_MS..(MAX_DELAY_MS * 2)
        /\ dattempt # U32(FALSE, 0) =>
              ddelay >= progressive_delay(dbase, PrevAttempt(dattempt))

\* The part of C13 the code keeps: the bound for every attempt index, and
\* monotonic growth while the index fits an i32.
ProgressiveMonotoneWithinI32 ==
    dpc = "progressive_done" =>
        /\ ddelay \in MIN_DELAY_MS..(MAX_DELAY_MS * 2)
        /\ (~dattempt.top /\ dattempt.low > 0) =>
              ddelay >= progressive_delay(dbase, PrevAttempt(dattempt))

\* The delay grew to its upper bound.
ProgressiveCeilingReached ==
    /\ dpc = "progressive_done"
    /\ dbase = 500
    /\ dattempt = U32(FALSE, 7)
    /\ ddelay = MAX_DELAY_MS * 2

\* ------------------------------------------------ claims: text functions

\* The String truncate_text was called on, trimmed, as bytes.
TrimmedBytes == Bytes(trim(xtext))

\* The bytes of the result before its "...".
KeptBytes == SubSeq(xout, 1, Len(xout) - Len(Ellipsis))

\* C14 as stated: length is counted in characters; a text of at most
\* max characters comes back unchanged, a longer one as its first max
\* characters followed by "...".
C14_TruncateByCharacters ==
    xpc = "truncate_done" =>
        xout = IF Len(xtext) <= xmax
               THEN Bytes(xtext)
               ELSE Bytes(SubSeq(xtext, 1, xmax)) \o Ellipsis

\* C14, amended: the text is trimmed and its length is counted in bytes; a
\* trimmed text of at most max_len bytes comes back as it is, a longer one
\* as its longest prefix of at most max_len - 3 bytes (0 when max_len < 3)
\* that ends on a character boundary, followed by "...".
C14_TruncateByBytes ==
    xpc = "truncate_done" =>
        IF Len(TrimmedBytes) <= xmax
        THEN xout = TrimmedBytes
        ELSE /\ Len(xout) >= Len(Ellipsis)
             /\ xout = KeptBytes \o Ellipsis
             /\ KeptBytes = SubSeq(TrimmedBytes, 1, Len(KeptBytes))
             /\ Len(KeptBytes) <= saturating_sub(xmax, 3)
             /\ is_char_boundary(TrimmedBytes, Len(KeptBytes))
             /\ \A e \in (Len(KeptBytes) + 1)..saturating_sub(xmax, 3) :
                    ~is_char_boundary(TrimmedBytes, e)

\* A text too long for max_len whose byte max_len - 3 lies inside a
\* character, so that the cut had to move back.
C14_Witness ==
    /\ xpc = "truncate_done"
    /\ Len(TrimmedBytes) > xmax
    /\ xmax > 3
    /\ ~is_char_boundary(TrimmedBytes, xmax - 3)
    /\ Len(KeptBytes) > 0

\* The byte range of text a chunk is.
ChunkLen(c) == c[2] - c[1]

\* C17: the chunks pushed so far are non-empty, at most max_len bytes long,
\* begin and end on character boundaries and lie end to end from byte 0 up
\* to start; when split_message returns they cover the whole text.
C17_SplitChunksPartitionText ==
    xpc \in {"split", "split_done"} =>
        /\ \A k \in 1..Len(xchunks) :
              /\ ChunkLen(xchunks[k]) > 0
              /\ ChunkLen(xchunks[k]) <= xmax
              /\ is_char_boundary(Bytes(xtext), xchunks[k][1])
              /\ is_char_boundary(Bytes(xtext), xchunks[k][2])
              /\ xchunks[k][1] = IF k = 1 THEN 0 ELSE xchunks[k - 1][2]
        /\ xpc = "split_done" =>
              (IF xchunks = <<>> THEN 0 ELSE xchunks[Len(xchunks)][2]) = Len(Bytes(xtext))

\* The part of C17 the code keeps: the same, for max_len of at least the
\* longest UTF-8 encoding of a character.
SplitChunksPartitionTextFromFourBytes ==
    xmax >= 4 => C17_SplitChunksPartitionText

\* A text was cut at a line feed and at a backed-off boundary.
SplitAtNewlineReached ==
    /\ xpc = "split_done"
    /\ Len(xchunks) >= 2
    /\ Bytes(xtext)[xchunks[1][2]].ch = "nl"
    /\ ChunkLen(xchunks[1]) < xmax

\* -------------------------------------------------- claims: bot commands

\* C16: every command other than Start and Help has a target, and every
\* target resolve_command can return resolves to at least one source, so
\* that no command is answered "Unknown command" or "No sources found".
C16_EveryCommandFetches ==
    /\ \A s \in DOMAIN Routes : resolve(resolve_command(s)[1]) # <<>>
    /\ (hpc # "received" /\ cmd \notin {"Start", "Help"}) =>
          /\ to_target(cmd) # None
          /\ \A k \in 1..Len(replies) : replies[k] # "Unknown command"
          /\ apc = "done" => content # <<NoSourcesFound>>

\* The part of C16 the code keeps: whatever resolve_command returns resolves
\* to at least one source, and no command ends in "No sources found".
RoutesResolveToSources ==
    /\ \A s \in DOMAIN Routes : resolve(resolve_command(s)[1]) # <<>>
    /\ apc = "done" => content # <<NoSourcesFound>>

\* A command was answered with the feed of its target.
CommandAnswered ==
    /\ hpc = "done"
    /\ cmd = "War"
    /\ replies = <<"response">>
    /\ success_count + error_count = 3

\* ------------------------------------------------- claims: translation

\* The call to the endpoint failed: no response, a status that is no
\* success, or a body that is no JSON.
TranslateCallFailed ==
    \/ ~tresp.transport
    \/ ~is_success(tresp.status)
    \/ ~tresp.json

\* C7: translate_text always returns a string to its caller, and the
\* original text whenever the call failed or nothing was translated.
C7_NeverFails ==
    tpc = "done" =>
        /\ tresult.ok
        /\ (TranslateCallFailed \/ extract(tresp.body) = <<>>) => tresult.text = ttext

\* What translate_text does: it returns an error to its caller exactly when
\* the call failed (transport error, non-success status, body that is no
\* JSON); otherwise it returns the concatenated translation, or the original
\* text unchanged when the body holds no translated text.
TranslateFallsBackOnlyOnEmptyTranslation ==
    tpc = "done" =>
        IF TranslateCallFailed
        THEN ~tresult.ok /\ tresult.err \in {"transport", "status", "json"}
        ELSE tresult = TOk(IF extract(tresp.body) = <<>> THEN ttext
                           ELSE extract(tresp.body))

\* A body with sentences none of which carries a string: the original text
\* comes back.
TranslateFallbackReached ==
    /\ tpc = "done"
    /\ ttext = <<"a", "b">>
    /\ tresp.transport /\ tresp.status = 200 /\ tresp.json
    /\ tresp.body = Json("array", <<Sentence(TRUE, "null", <<>>), Sentence(FALSE, "-", <<>>)>>)
    /\ tresult = TOk(<<"a", "b">>)

\* A rate-limited translation call: the caller gets an error.
TranslateErrorReached ==
    /\ tpc = "done"
    /\ tresp.transport /\ tresp.status = 429
    /\ ~tresult.ok

\* ------------------------------------------------------------------ Spec

\* No fetch_with_retry call in progress.
RetryIdle ==
    /\ rpc = "idle"
    /\ rsource = SOURCES[1]
    /\ maxAttempts = 0
    /\ attempt = 0
    /\ lastError = "Empty"
    /\ outcomes = <<>>
    /\ sleeps = <<>>
    /\ result = NoResult

\* No fetch_target call.
AggOff(pc) ==
    /\ apc = pc
    /\ target = TargetCategory("Global")
    /\ sources = <<>>
    /\ idx = 1
    /\ header = <<>>
    /\ content = <<>>
    /\ success_count = 0
    /\ error_count = 0
    /\ calls = <<>>

\* No single fetch under observation.
FetchOff ==
    /\ fsource = SOURCES[1]
    /\ flang = "ru"
    /\ resp = NoResponse
    /\ fpc = "off"
    /\ fdelays = <<>>
    /\ translations = <<>>
    /\ fresult = NoResult

\* No delay function called directly.
DelayOff ==
    /\ dpc = "off"
    /\ dbase = 0
    /\ dattempt = U32(FALSE, 0)
    /\ ddelay = 0

\* No text function called.
TextOff ==
    /\ xpc = "off"
    /\ xtext = <<>>
    /\ xmax = 0
    /\ xout = <<>>
    /\ xstart = 0
    /\ xchunks = <<>>

\* No bot command being handled.
CommandOff ==
    /\ cmd = "None"
    /\ hpc = "off"
    /\ replies = <<>>

\* No translate_text call.
TranslateOff ==
    /\ ttext = <<>>
    /\ tlang = "ru"
    /\ tresp = NoTranslateResponse
    /\ tpc = "off"
    /\ tresult = NoTranslation

\* Either fetch_target(engine, target) is called, or fetch_with_retry is
\* called directly on one source with some attempt budget.
Init ==
    /\ FetchOff
    /\ TranslateOff
    /\ DelayOff
    /\ TextOff
    /\ CommandOff
    /\ \/ /\ target \in Targets
          /\ apc = "start"
          /\ sources = <<>>
          /\ idx = 1
          /\ header = <<>>
          /\ content = <<>>
          /\ success_count = 0
          /\ error_count = 0
          /\ calls = <<>>
          /\ RetryIdle
       \/ /\ AggOff("direct")
          /\ rpc = "top"
          /\ rsource \in {SOURCES[i] : i \in 1..Len(SOURCES)}
          /\ maxAttempts \in 0..MaxAttempts
          /\ attempt = 0
          /\ lastError \in ErrorKinds
          /\ outcomes = <<>>
          /\ sleeps = <<>>
          /\ result = NoResult

Next == fetch_target \/ fetch_with_retry

Spec == Init /\ [][Next]_vars

\* ------------------------------------------------------------- SpecFetch

\* The languages a source may have (specification, section 3; consts.rs
\* gives Source no language).
Languages == {"ru", "en"}

\* fetch(source) is called on one source; the network answers with any
\* response of the source's type.
InitFetch ==
    /\ AggOff("off")
    /\ RetryIdle
    /\ TranslateOff
    /\ DelayOff
    /\ TextOff
    /\ CommandOff
    /\ fsource \in FetchSources
    /\ flang \in Languages
    /\ resp \in Responses(fsource.source_type)
    /\ fpc = "start"
    /\ fdelays = <<>>
    /\ translations = <<>>
    /\ fresult = NoResult

NextFetch == fetch

SpecFetch == InitFetch /\ [][NextFetch]_vars

\* ----------------------------------------------------------- SpecRequest

\* The HTTP statuses a source answers with.
HttpStatuses == {200, 301, 403, 404, 429, 500}

\* A few bodies per source type, each under every status.
RequestBodies(source_type) ==
    CASE source_type = "Rss" ->
            {Malformed, Listing(<<>>), Listing(<<"good">>), Listing(<<"good", "none">>)}
      [] source_type = "TelegramHtml" ->
            {Listing(<<>>), Listing(<<"good">>), Listing(<<"junk", "good">>)}
      [] source_type = "NewsData" ->
            {KeyMissing, Malformed, Listing(<<>>), Listing(<<"good">>)}
      [] source_type = "Html" ->
            {PricePage(p, c) : p, c \in BOOLEAN}

RequestResponses(source_type) ==
    {TransportFailure} \cup
        {WithStatus(b, st) : b \in RequestBodies(source_type), st \in HttpStatuses}

\* Either fetch(source) is called and the network answers under any
\* status, or one of the two delay functions is called directly.
InitRequest ==
    /\ AggOff("off")
    /\ RetryIdle
    /\ TranslateOff
    /\ TextOff
    /\ CommandOff
    /\ \/ /\ DelayOff
          /\ fsource \in FetchSources
          /\ flang \in Languages
          /\ resp \in RequestResponses(fsource.source_type)
          /\ fpc = "start"
          /\ fdelays = <<>>
          /\ translations = <<>>
          /\ fresult = NoResult
       \/ /\ FetchOff
          /\ dpc = "golden"
          /\ dbase \in DelayBases
          /\ dattempt = U32(FALSE, 0)
          /\ ddelay = 0
       \/ /\ FetchOff
          /\ dpc = "progressive"
          /\ dbase \in DelayBases
          /\ dattempt \in DelayAttempts
          /\ ddelay = 0

NextRequest == fetch \/ fibonacci_delay \/ ProgressiveDelay

SpecRequest == InitRequest /\ [][NextRequest]_vars

\* -------------------------------------------------------------- SpecText

\* truncate_text(text, max_len) or split_message(text, max_len) is called
\* once on any text.
InitText ==
    /\ AggOff("off")
    /\ RetryIdle
    /\ FetchOff
    /\ TranslateOff
    /\ DelayOff
    /\ CommandOff
    /\ xtext \in Texts
    /\ xout = <<>>
    /\ xstart = 0
    /\ xchunks = <<>>
    /\ \/ xpc = "truncate" /\ xmax \in 0..MaxLen
       \/ xpc = "split" /\ xmax \in 1..MaxLen

NextText == Truncate \/ split_message

SpecText == InitText /\ [][NextText]_vars

\* ----------------------------------------------------------- SpecCommand

\* The bot receives one command.
InitCommand ==
    /\ AggOff("off")
    /\ RetryIdle
    /\ FetchOff
    /\ TranslateOff
    /\ DelayOff
    /\ TextOff
    /\ cmd \in Commands
    /\ hpc = "received"
    /\ replies = <<>>

NextCommand == handle_command

SpecCommand == InitCommand /\ [][NextCommand]_vars

\* --------------------------------------------------------- SpecTranslate

\* translate_text(client, text, target_lang) is called once; the endpoint
\* answers with any response.
InitTranslate ==
    /\ AggOff("off")
    /\ RetryIdle
    /\ FetchOff
    /\ DelayOff
    /\ TextOff
    /\ CommandOff
    /\ ttext \in TranslateTexts
    /\ tlang \in Languages
    /\ tresp \in TranslateResponses
    /\ tpc = "send"
    /\ tresult = NoTranslation

NextTranslate == translate_text

SpecTranslate == InitTranslate /\ [][NextTranslate]_vars

====
